---- MODULE Spec2Model ----
(***************************************************************************)
(* A model of cgps.py: the UBX frame codec (checksums, frame assembly),    *)
(* the blocking receive loops (read_ack, query_dynamic_model), the three   *)
(* operations built on them and the command-line entry point.              *)
(*                                                                         *)
(* Bytes are the integers 0..255, byte strings are sequences of bytes.     *)
(* A Python call that can raise is modelled by a record [exc, value]:      *)
(* exc is "none" or the name of the exception class.                       *)
(***************************************************************************)
EXTENDS Integers, Sequences, FiniteSets, TLC

(***************************************************************************)
(* Bounds of the model.                                                    *)
(***************************************************************************)
\* longest byte string handed to the two checksum functions
MaxDataLen == 3
\* longest enumerated payload handed to ubx_assemble_packet
MaxPayloadLen == 2
\* number of items (frames, noise bytes, cut-off frames) the device sends
MaxItems == 2
\* the clock is followed up to this many seconds; a bounded wait that starts
\* at 0 never gets there (timeout, plus one loop body of six reads)
MaxClock == 8
\* passes of the bot's main loop that are followed
MaxIterations == 30
\* direct messages delivered to the bot's callback
MaxMessages == 2

\* byte values the enumerated inputs are drawn from
SampleBytes == {0, 1, 128, 255}

(***************************************************************************)
(* Byte-string helpers (Python slicing and bytes construction).            *)
(***************************************************************************)
Min(x, y) == IF x < y THEN x ELSE y

\* s[:n]
Take(s, n) == SubSeq(s, 1, Min(n, Len(s)))

\* s[n:]
Drop(s, n) == SubSeq(s, Min(n, Len(s)) + 1, Len(s))

\* bytes of length n, all zero
Zeros(n) == [k \in 1..n |-> 0]

\* all sequences over S of length at most n
RECURSIVE SeqsUpTo(_, _)
SeqsUpTo(S, n) ==
    IF n = 0 THEN {<<>>}
    ELSE LET shorter == SeqsUpTo(S, n - 1)
         IN  shorter \cup {Append(s, x) : s \in {t \in shorter : Len(t) = n - 1}, x \in S}

(***************************************************************************)
(* Frame codec.                                                            *)
(***************************************************************************)
\* One pass of the loop body of __ubx_checksum over data[lo..hi], in order,
\* starting from the accumulators acc = <<checksum_a, checksum_b>>.  The
\* accumulators are unbounded integers.  The range is halved so that long
\* inputs do not need deep recursion; the bytes are still taken left to right
\* (the left half is evaluated first: its sums are never negative).
RECURSIVE UnboundedLoop(_, _, _, _)
UnboundedLoop(data, lo, hi, acc) ==
    IF lo > hi THEN acc
    ELSE IF lo = hi
         THEN LET checksum_a == acc[1] + data[lo]
                  checksum_b == checksum_a + acc[2]
              IN  <<checksum_a, checksum_b>>
         ELSE LET mid  == (lo + hi) \div 2
                  left == UnboundedLoop(data, lo, mid, acc)
              IN  IF left[1] >= 0 THEN UnboundedLoop(data, mid + 1, hi, left) ELSE left

\* __ubx_checksum: unbounded sums, reduced modulo 256 once at the end
__ubx_checksum(prefix_and_payload) ==
    LET acc == UnboundedLoop(prefix_and_payload, 1, Len(prefix_and_payload), <<0, 0>>)
    IN  <<acc[1] % 256, acc[2] % 256>>

\* x & 0xFF on a non-negative integer
Mask8(x) == x % 256

\* The loop body of ubx_checksum over payload[lo..hi]: masked after each add.
RECURSIVE MaskedLoop(_, _, _, _)
MaskedLoop(payload, lo, hi, acc) ==
    IF lo > hi THEN acc
    ELSE IF lo = hi
         THEN LET ck_a == Mask8(acc[1] + payload[lo])
                  ck_b == Mask8(acc[2] + ck_a)
              IN  <<ck_a, ck_b>>
         ELSE LET mid  == (lo + hi) \div 2
                  left == MaskedLoop(payload, lo, mid, acc)
              IN  IF left[1] >= 0 THEN MaskedLoop(payload, mid + 1, hi, left) ELSE left

\* a slip in the masked loop: ck_b adds the byte instead of ck_a
ubx_checksum_AddsByte(payload) ==
    LET RECURSIVE Go(_, _)
        Go(k, acc) == IF k > Len(payload) THEN acc
                      ELSE Go(k + 1, <<Mask8(acc[1] + payload[k]), Mask8(acc[2] + payload[k])>>)
    IN  Go(1, <<0, 0>>)

\* ubx_checksum: both accumulators masked to 8 bits after every addition
ubx_checksum(payload) == MaskedLoop(payload, 1, Len(payload), <<0, 0>>)

\* number of bytes of the length field
length_field_bytes == 2

\* int.to_bytes(length_field_bytes, byteorder='little'): OverflowError when
\* the value does not fit
to_bytes_little(n) ==
    IF n >= 256 ^ length_field_bytes
    THEN [exc |-> "OverflowError", value |-> <<>>]
    ELSE [exc |-> "none", value |-> <<n % 256, n \div 256>>]

ubx_packet_header == <<181, 98>>

\* a slip: the length field written big-endian
ubx_assemble_packet_BigEndian(class_id, message_id, payload) ==
    LET prefix == <<class_id, message_id>>
        length == to_bytes_little(Len(payload))
        be     == <<length.value[2], length.value[1]>>
    IN  IF length.exc # "none" THEN length
        ELSE [exc |-> "none",
              value |-> ubx_packet_header \o prefix \o be \o payload
                          \o __ubx_checksum(prefix \o be \o payload)]

\* a slip: the length silently truncated to 16 bits instead of failing
ubx_assemble_packet_Truncating(class_id, message_id, payload) ==
    LET prefix == <<class_id, message_id>>
        n      == Len(payload) % (256 * 256)
        length == <<n % 256, n \div 256>>
    IN  [exc |-> "none",
         value |-> ubx_packet_header \o prefix \o length \o payload \o <<0, 0>>]

\* ubx_assemble_packet: sync, class, id, LE16 length, payload, checksum
ubx_assemble_packet(class_id, message_id, payload) ==
    LET prefix == <<class_id, message_id>>
        length == to_bytes_little(Len(payload))
    IN  IF length.exc # "none" THEN length
        ELSE [exc |-> "none",
              value |-> ubx_packet_header \o prefix \o length.value \o payload
                          \o __ubx_checksum(prefix \o length.value \o payload)]

(***************************************************************************)
(* Protocol and program constants.                                         *)
(***************************************************************************)
\* read_ack's default deadline, in seconds
timeout == 2
\* the per-read timeout main opens the port with, in seconds
serial_timeout == 1

\* a slip: the model byte left at 0 (Portable)
flight_mode_payload_Portable ==
    <<255, 255, 0, 3, 0, 0, 0, 0, 16, 39, 0, 0, 5, 0, 250, 0, 250, 0,
      100, 0, 44, 1, 0, 0, 0, 0, 0, 0, 0, 0, 0, 0, 0, 0, 0, 0>>

\* enable_flight_mode's CFG-NAV5 payload (the hex string of the source)
flight_mode_payload ==
    <<255, 255, 6, 3, 0, 0, 0, 0, 16, 39, 0, 0, 5, 0, 250, 0, 250, 0,
      100, 0, 44, 1, 0, 0, 0, 0, 0, 0, 0, 0, 0, 0, 0, 0, 0, 0>>

\* reboot_my_gps's CFG-RST payload
reboot_payload == <<255, 135, 0, 0>>

\* a request: the arguments of __send_and_confirm_ubx_packet
Request(c, i, p) == [class_id |-> c, message_id |-> i, payload |-> p]
NoRequest == Request(0, 0, <<>>)
cfg_nav5_request == Request(6, 36, flight_mode_payload)
cfg_rst_request  == Request(6, 4, reboot_payload)

(***************************************************************************)
(* What the device may put on the line, one item at a time: complete       *)
(* frames (with their checksums), stray bytes, frames cut short, and       *)
(* frames whose two checksum bytes are wrong.                              *)
(***************************************************************************)
Items ==
    [ ack_nav5   |-> <<181, 98, 5, 1, 2, 0, 6, 36, 50, 91>>,
      nak_nav5   |-> <<181, 98, 5, 0, 2, 0, 6, 36, 49, 86>>,
      ack_rst    |-> <<181, 98, 5, 1, 2, 0, 6, 4, 18, 59>>,
      nak_rst    |-> <<181, 98, 5, 0, 2, 0, 6, 4, 17, 54>>,
      ack_empty  |-> <<181, 98, 5, 1, 0, 0, 6, 23>>,
      nav5_len3  |-> <<181, 98, 6, 36, 3, 0, 0, 0, 6, 51, 23>>,
      nav5_len2  |-> <<181, 98, 6, 36, 2, 0, 0, 0, 44, 224>>,
      nav5_len0  |-> <<181, 98, 6, 36, 0, 0, 42, 132>>,
      nav_other  |-> <<181, 98, 1, 7, 3, 0, 181, 98, 5, 39, 40>>,
      stray_b5   |-> <<181>>,
      stray_00   |-> <<0>>,
      cut_sync   |-> <<181, 98>>,
      cut_header |-> <<181, 98, 5>>,
      cut_length |-> <<181, 98, 5, 1, 2>>,
      cut_payload|-> <<181, 98, 5, 1, 2, 0, 6>>,
      cut_cksum  |-> <<181, 98, 5, 1, 2, 0, 6, 36, 50>>,
      ack_nav5_badck  |-> <<181, 98, 5, 1, 2, 0, 6, 36, 0, 0>>,
      nak_nav5_badck  |-> <<181, 98, 5, 0, 2, 0, 6, 36, 49, 87>>,
      nav5_len3_badck |-> <<181, 98, 6, 36, 3, 0, 0, 0, 6, 255, 255>> ]

ItemNames == DOMAIN Items

\* the complete, well-framed items
FrameItems == {"ack_nav5", "nak_nav5", "ack_rst", "nak_rst", "ack_empty",
               "nav5_len3", "nav5_len2", "nav5_len0", "nav_other"}

(***************************************************************************)
(* State.                                                                  *)
(***************************************************************************)
VARIABLES
    op,           \* the entry point of this run
    args,         \* main: the parsed command line flags
    open_ok,      \* main: whether serial.Serial(...) succeeds
    data,         \* the byte string given to the checksum functions
    req,          \* class_id, message_id, payload of the current send
    pc,           \* the statement about to run
    stack,        \* return labels of the callers
    ret,          \* value returned by the last call: "True", "False", "None"
    exc,          \* the exception that ended the run, or "none"
    exit_code,    \* main: process exit code, -1 while running
    ser,          \* the port: "unopened", "open", "closed"
    txbuf,        \* every byte written to the port, in order
    rxbuf,        \* bytes received and not yet read
    sent,         \* names of the items the device has sent, in order
    read_issued,  \* whether serial_port.read has been called
    now,          \* time.time(), in seconds
    start_time,   \* read_ack's start_time
    header,       \* receive loop locals
    length,
    payload,
    frames,       \* every frame a receive loop has parsed, in order
    ack_ok,       \* what read_ack returned to __send_and_confirm_ubx_packet
    dyn_model,    \* what query_dynamic_model returned, -1 before
    packet,       \* result of the last ubx_assemble_packet call
    sum1,         \* result of __ubx_checksum(data)
    sum2,         \* result of ubx_checksum(data)
    iteration,    \* bot.py: passes of the main loop started
    max_alt,      \* bot.py: highest altitude recorded
    burst,        \* bot.py: the burst flag
    pos,          \* bot.py: the global pos: Unbound, PyNone or gps_data(alt)
    msg,          \* bot.py: the broadcast of the latest pass, "None" if none
    burst_msgs,   \* bot.py: number of 'balloon has burst' broadcasts sent
    loop_pc,      \* bot.py: the main loop's position
    cb_pc,        \* bot.py: onReceive's position, "idle" between packets
    packets,      \* bot.py: direct messages delivered to onReceive
    replies       \* bot.py: replies sent by onReceive

inputs == <<op, args, open_ok, data>>
ctrl   == <<pc, stack, ret, exc, exit_code>>
port   == <<ser, txbuf, rxbuf, sent, read_issued>>
clock  == <<now, start_time>>
frame  == <<header, length, payload, frames>>
locals == <<req, ack_ok, dyn_model, packet, sum1, sum2>>
bot    == <<iteration, max_alt, burst, pos, msg, burst_msgs, loop_pc, cb_pc,
           packets, replies>>
vars   == <<inputs, ctrl, port, clock, frame, locals, bot>>

NoArgs == [reset_gps |-> FALSE, get_model |-> FALSE, set_flight_mode |-> FALSE]
NoPacket == [exc |-> "none", value |-> <<>>]

\* payloads given to ubx_assemble_packet: short ones, and zero-filled ones
\* around the one-byte and two-byte limits of the length field
AssemblePayloads ==
    SeqsUpTo(SampleBytes, MaxPayloadLen)
        \cup {Zeros(n) : n \in {255, 256, 256 * 256 - 1, 256 * 256}}

\* payloads given to a direct __send_and_confirm_ubx_packet call
SendRequests ==
    {Request(c, i, p) : c \in {6}, i \in {4, 36}, p \in {<<>>, <<1>>, Zeros(256 * 256)}}

\* values of the global pos: not assigned yet, None, or the dictionary built
\* by parse_recent_gps_from_journalctl (of which the loop's decisions use
\* 'alt' only)
Unbound == [kind |-> "unbound", alt |-> 0]
PyNone  == [kind |-> "None", alt |-> 0]
gps_data(a) == [kind |-> "dict", alt |-> a]

\* bot.py after lines 127-132: the callback is subscribed, the loop has not
\* started, and the global pos has not been assigned
BotStart ==
    /\ iteration = 0
    /\ max_alt = 0
    /\ burst = FALSE
    /\ pos = Unbound
    /\ msg = "None"
    /\ burst_msgs = 0
    /\ loop_pc = "get_pos"
    /\ cb_pc = "idle"
    /\ packets = 0
    /\ replies = 0

InitCommon ==
    /\ BotStart
    /\ stack = <<>>
    /\ ret = "unset"
    /\ exc = "none"
    /\ exit_code = -1
    /\ txbuf = <<>>
    /\ rxbuf = <<>>
    /\ sent = <<>>
    /\ read_issued = FALSE
    /\ now = 0
    /\ start_time = 0
    /\ header = <<>>
    /\ length = 0
    /\ payload = <<>>
    /\ frames = <<>>
    /\ ack_ok = "unset"
    /\ dyn_model = -1
    /\ packet = NoPacket
    /\ sum1 = <<>>
    /\ sum2 = <<>>

Init ==
    /\ InitCommon
    /\ \/ /\ op = "main"
          /\ args \in [reset_gps : BOOLEAN, get_model : BOOLEAN, set_flight_mode : BOOLEAN]
          /\ open_ok \in BOOLEAN
          /\ data = <<>> /\ req = NoRequest
          /\ ser = "unopened" /\ pc = "main_open"
       \/ /\ op \in {"enable_flight_mode", "reboot_my_gps", "query_dynamic_model"}
          /\ args = NoArgs /\ open_ok = TRUE
          /\ data = <<>> /\ req = NoRequest
          /\ ser = "open" /\ pc = op
       \/ /\ op = "send_and_confirm"
          /\ args = NoArgs /\ open_ok = TRUE
          /\ data = <<>> /\ req \in SendRequests
          /\ ser = "open" /\ pc = "send_assemble"
       \/ /\ op = "ubx_assemble_packet"
          /\ args = NoArgs /\ open_ok = TRUE
          /\ data = <<>>
          /\ req \in {Request(c, i, p) : c \in {6, 255}, i \in {0, 36}, p \in AssemblePayloads}
          /\ ser = "unopened" /\ pc = "assemble"
       \/ /\ op = "checksum"
          /\ args = NoArgs /\ open_ok = TRUE
          /\ data \in SeqsUpTo(SampleBytes, MaxDataLen) /\ req = NoRequest
          /\ ser = "unopened" /\ pc = "checksum_unbounded"

(***************************************************************************)
(* Calls, returns and exceptions.                                          *)
(***************************************************************************)
Terminal == {"done", "raised", "exited"}

Call(entry, return_to) ==
    /\ pc' = entry
    /\ stack' = Append(stack, return_to)
    /\ UNCHANGED <<ret, exc, exit_code>>

\* return v to the caller; with no caller the run is over
Return(v) ==
    /\ ret' = v
    /\ IF stack = <<>>
       THEN pc' = "done" /\ stack' = stack
       ELSE pc' = stack[Len(stack)] /\ stack' = SubSeq(stack, 1, Len(stack) - 1)
    /\ UNCHANGED <<exc, exit_code>>

\* a slip: the port opened without the with-block, so nothing closes it
Raise_PortLeftOpen(e) ==
    /\ exc' = e
    /\ stack' = <<>>
    /\ UNCHANGED <<ret, ser>>
    /\ pc' = IF op = "main" /\ e = "SerialException" THEN "exited" ELSE "raised"
    /\ exit_code' = IF op = "main" THEN 1 ELSE exit_code

\* An exception raised inside an operation.  No function below main has a
\* handler.  Under main the with-block closes the port on the way out and the
\* except clause catches serial.SerialException only (print, sys.exit(1));
\* anything else leaves main uncaught.
Raise(e) ==
    /\ exc' = e
    /\ stack' = <<>>
    /\ UNCHANGED ret
    /\ IF op = "main"
       THEN /\ ser' = "closed"
            /\ exit_code' = 1
            /\ pc' = IF e = "SerialException" THEN "exited" ELSE "raised"
       ELSE /\ pc' = "raised"
            /\ UNCHANGED <<ser, exit_code>>

(***************************************************************************)
(* The serial port.                                                        *)
(***************************************************************************)
\* serial_port.read(n) on a port with a per-read timeout: the n oldest bytes
\* when that many have arrived (taking under one timeout: 0 or 1 whole
\* seconds on the clock), else whatever has arrived once the timeout has
\* run out.  read(0) returns at once.
ReadOutcomes(n) ==
    IF n = 0 THEN {[bytes |-> <<>>, rest |-> rxbuf, dt |-> 0]}
    ELSE IF Len(rxbuf) >= n
         THEN {[bytes |-> Take(rxbuf, n), rest |-> Drop(rxbuf, n), dt |-> d] :
                  d \in {0, Min(serial_timeout, MaxClock - now)}}
         ELSE {[bytes |-> rxbuf, rest |-> <<>>,
                dt |-> Min(serial_timeout, MaxClock - now)]}

\* the statements at which a receive loop sits in serial_port.read
ReadLabels ==
    {"ra_sync1", "ra_sync2", "ra_header", "ra_length", "ra_payload", "ra_cksum",
     "q_sync1", "q_sync2", "q_header", "q_length", "q_payload", "q_cksum"}

\* The device puts its next item on the line while a read is waiting for
\* bytes.
DeviceSend ==
    /\ pc \in ReadLabels
    /\ ser = "open"
    /\ rxbuf = <<>>
    /\ Len(sent) < MaxItems
    /\ \E item \in ItemNames :
          /\ rxbuf' = Items[item]
          /\ sent' = Append(sent, item)
    /\ UNCHANGED <<inputs, bot, ctrl, ser, txbuf, read_issued, clock, frame, locals>>

\* what the endless stream is made of: stray bytes, frames of another class,
\* ACKs that name no request, a cut-off frame, and the two answers
StreamItems == {"stray_00", "stray_b5", "nav_other", "ack_empty", "cut_payload",
                "cut_length", "ack_nav5", "nak_nav5"}

\* A device that never stops sending: as DeviceSend, without the count of
\* items and without the record of what was sent.
DeviceStreams ==
    /\ pc \in ReadLabels
    /\ ser = "open"
    /\ rxbuf = <<>>
    /\ \E item \in StreamItems : rxbuf' = Items[item]
    /\ UNCHANGED <<inputs, bot, ctrl, ser, txbuf, sent, read_issued, clock, frame, locals>>

\* the statements that call serial_port.write
WriteLabels == {"send_write", "query_dynamic_model"}

\* The port fails under a read or a write (the device is unplugged, the
\* driver reports an error): pyserial raises serial.SerialException out of
\* the call.
SerialFails ==
    /\ pc \in ReadLabels \cup WriteLabels
    /\ ser = "open"
    /\ Raise("SerialException")
    /\ UNCHANGED <<inputs, bot, txbuf, rxbuf, sent, read_issued, clock, frame, locals>>

\* struct.unpack('<H', b): struct.error unless b has exactly two bytes
unpack_H(b) ==
    IF Len(b) # 2
    THEN [exc |-> "struct.error", value |-> 0]
    ELSE [exc |-> "none", value |-> b[1] + 256 * b[2]]

(***************************************************************************)
(* Pure-function entry points.                                             *)
(***************************************************************************)
\* a call of __ubx_checksum(data)
ChecksumUnbounded ==
    /\ pc = "checksum_unbounded"
    /\ sum1' = __ubx_checksum(data)
    /\ pc' = "checksum_masked"
    /\ UNCHANGED <<inputs, bot, stack, ret, exc, exit_code, port, clock, frame,
                   req, ack_ok, dyn_model, packet, sum2>>

\* a call of ubx_checksum(data)
ChecksumMasked ==
    /\ pc = "checksum_masked"
    /\ sum2' = ubx_checksum(data)
    /\ pc' = "done"
    /\ UNCHANGED <<inputs, bot, stack, ret, exc, exit_code, port, clock, frame,
                   req, ack_ok, dyn_model, packet, sum1>>

\* a call of ubx_assemble_packet(class_id, message_id, payload)
Assemble ==
    /\ pc = "assemble"
    /\ LET r == ubx_assemble_packet(req.class_id, req.message_id, req.payload)
       IN  /\ packet' = r
           /\ IF r.exc # "none"
              THEN pc' = "raised" /\ exc' = r.exc
              ELSE pc' = "done" /\ exc' = exc
    /\ UNCHANGED <<inputs, bot, stack, ret, exit_code, port, clock, frame,
                   req, ack_ok, dyn_model, sum1, sum2>>

(***************************************************************************)
(* __send_and_confirm_ubx_packet                                           *)
(***************************************************************************)
\* send_packet = ubx_assemble_packet(class_id, message_id, payload)
SendAssemble ==
    /\ pc = "send_assemble"
    /\ LET r == ubx_assemble_packet(req.class_id, req.message_id, req.payload)
       IN  /\ packet' = r
           /\ IF r.exc # "none"
              THEN Raise(r.exc) /\ UNCHANGED <<txbuf, rxbuf, sent, read_issued>>
              ELSE /\ pc' = "send_write"
                   /\ UNCHANGED <<stack, ret, exc, exit_code, port>>
    /\ UNCHANGED <<inputs, bot, clock, frame, req, ack_ok, dyn_model, sum1, sum2>>

\* serial_port.write(send_packet), then the call of read_ack
SendWrite ==
    /\ pc = "send_write"
    /\ txbuf' = txbuf \o packet.value
    /\ Call("ra_start", "send_return")
    /\ UNCHANGED <<inputs, bot, ser, rxbuf, sent, read_issued, clock, frame, locals>>

\* return read_ack(serial_port, class_id, message_id)
SendReturn ==
    /\ pc = "send_return"
    /\ ack_ok' = ret
    /\ Return(ret)
    /\ UNCHANGED <<inputs, bot, port, clock, frame, req, dyn_model, packet, sum1, sum2>>

(***************************************************************************)
(* read_ack(serial_port, msg_class = req.class_id, msg_id = req.message_id)*)
(***************************************************************************)
\* start_time = time.time()
ReadAckStart ==
    /\ pc = "ra_start"
    /\ start_time' = now
    /\ pc' = "ra_loop"
    /\ UNCHANGED <<inputs, bot, stack, ret, exc, exit_code, port, now, frame, locals>>

\* a slip: the loop gives up one second early
ReadAckDeadline_Early == now - start_time < timeout - 1

\* a slip: the loop has no deadline
ReadAckDeadline_Never == TRUE

\* the deadline test of the while loop
ReadAckDeadline == now - start_time < timeout

\* while time.time() - start_time < timeout: ... ; return None
ReadAckLoop ==
    /\ pc = "ra_loop"
    /\ IF ReadAckDeadline
       THEN pc' = "ra_sync1" /\ UNCHANGED <<stack, ret, exc, exit_code>>
       ELSE Return("None")
    /\ UNCHANGED <<inputs, bot, port, clock, frame, locals>>

\* if serial_port.read(1) == b'\xB5' (here) / b'\x62' (after the first)
ReadAckSync(here, byte, found) ==
    /\ pc = here
    /\ \E r \in ReadOutcomes(1) :
          /\ rxbuf' = r.rest
          /\ now' = now + r.dt
          /\ pc' = IF r.bytes = <<byte>> THEN found ELSE "ra_loop"
    /\ read_issued' = TRUE
    /\ UNCHANGED <<inputs, bot, stack, ret, exc, exit_code, ser, txbuf, sent,
                   start_time, frame, locals>>

ReadAckSync1 == ReadAckSync("ra_sync1", 181, "ra_sync2")
ReadAckSync2 == ReadAckSync("ra_sync2", 98, "ra_header")

\* header = serial_port.read(2)
ReadAckHeader ==
    /\ pc = "ra_header"
    /\ \E r \in ReadOutcomes(2) :
          /\ rxbuf' = r.rest
          /\ now' = now + r.dt
          /\ header' = r.bytes
    /\ pc' = "ra_length"
    /\ UNCHANGED <<inputs, bot, stack, ret, exc, exit_code, ser, txbuf, sent, read_issued,
                   start_time, length, payload, frames, locals>>

\* length = struct.unpack('<H', serial_port.read(2))[0]
ReadAckLength ==
    /\ pc = "ra_length"
    /\ \E r \in ReadOutcomes(2) :
          /\ rxbuf' = r.rest
          /\ now' = now + r.dt
          /\ LET u == unpack_H(r.bytes)
             IN  IF u.exc # "none"
                 THEN Raise(u.exc) /\ UNCHANGED length
                 ELSE /\ length' = u.value
                      /\ pc' = "ra_payload"
                      /\ UNCHANGED <<stack, ret, exc, exit_code, ser>>
    /\ UNCHANGED <<inputs, bot, txbuf, sent, read_issued, start_time, header, payload,
                   frames, locals>>

\* payload = serial_port.read(length)
ReadAckPayload ==
    /\ pc = "ra_payload"
    /\ \E r \in ReadOutcomes(length) :
          /\ rxbuf' = r.rest
          /\ now' = now + r.dt
          /\ payload' = r.bytes
    /\ pc' = "ra_cksum"
    /\ UNCHANGED <<inputs, bot, stack, ret, exc, exit_code, ser, txbuf, sent, read_issued,
                   start_time, header, length, frames, locals>>

\* a variant that verifies: a frame whose checksum bytes are not the checksum
\* of its class, id, length and payload is dropped
ReadAckChecksum_Verifies ==
    /\ pc = "ra_cksum"
    /\ \E r \in ReadOutcomes(2) :
          /\ rxbuf' = r.rest
          /\ now' = now + r.dt
          /\ LET good == r.bytes = ubx_checksum(header \o <<length % 256, length \div 256>>
                                                \o payload)
             IN  /\ pc' = IF good THEN "ra_classify" ELSE "ra_loop"
                 /\ frames' = IF good /\ Len(frames) < Len(sent)
                              THEN Append(frames, [header |-> header, length |-> length,
                                                   payload |-> payload])
                              ELSE frames
    /\ UNCHANGED <<inputs, bot, stack, ret, exc, exit_code, ser, txbuf, sent, read_issued,
                   start_time, header, length, payload, locals>>

\* serial_port.read(2)  # checksum
\* The frame just read joins the record of parsed frames.  The record goes
\* with the record of the device's items: a frame read from recorded items
\* always finds Len(frames) < Len(sent); frames of an unrecorded stream are
\* not recorded either.
ReadAckChecksum ==
    /\ pc = "ra_cksum"
    /\ \E r \in ReadOutcomes(2) :
          /\ rxbuf' = r.rest
          /\ now' = now + r.dt
    /\ pc' = "ra_classify"
    /\ frames' = IF Len(frames) < Len(sent)
                 THEN Append(frames, [header |-> header, length |-> length,
                                      payload |-> payload])
                 ELSE frames
    /\ UNCHANGED <<inputs, bot, stack, ret, exc, exit_code, ser, txbuf, sent, read_issued,
                   start_time, header, length, payload, locals>>

\* a slip: the acknowledged class/id in the payload is not compared
read_ack_classify_AnyAck(hdr, pl, msg_class, msg_id) ==
    IF hdr = <<5, 1>> THEN "True"
    ELSE IF hdr = <<5, 0>> THEN "False"
    ELSE "continue"

\* the two tests at the end of the loop body: "True", "False", or "continue"
\* when neither returns
read_ack_classify(hdr, pl, msg_class, msg_id) ==
    IF hdr = <<5, 1>> /\ Take(pl, 2) = <<msg_class, msg_id>> THEN "True"
    ELSE IF hdr = <<5, 0>> /\ Take(pl, 2) = <<msg_class, msg_id>> THEN "False"
    ELSE "continue"

ReadAckClassify ==
    /\ pc = "ra_classify"
    /\ LET c == read_ack_classify(header, payload, req.class_id, req.message_id)
       IN  IF c = "continue"
           THEN pc' = "ra_loop" /\ UNCHANGED <<stack, ret, exc, exit_code>>
           ELSE Return(c)
    /\ UNCHANGED <<inputs, bot, port, clock, frame, locals>>

(***************************************************************************)
(* enable_flight_mode and reboot_my_gps                                    *)
(***************************************************************************)
\* ack_ok = __send_and_confirm_ubx_packet(serial_port, 0x06, 0x24, payload)
EnableFlightModeCall ==
    /\ pc = "enable_flight_mode"
    /\ req' = cfg_nav5_request
    /\ Call("send_assemble", "efm_return")
    /\ UNCHANGED <<inputs, bot, port, clock, frame, ack_ok, dyn_model, packet, sum1, sum2>>

\* a variant that hands the tri-state on to the caller
enable_flight_mode_outcome_TriState(ok) ==
    [exc |-> "none", value |-> ok]

\* if not ack_ok: raise Exception(...); otherwise the function falls off its
\* end and returns None.  `not ack_ok` is true of False and of None alike.
enable_flight_mode_outcome(ok) ==
    IF ok # "True"
    THEN [exc |-> "Exception", value |-> "None"]
    ELSE [exc |-> "none", value |-> "None"]

EnableFlightModeReturn ==
    /\ pc = "efm_return"
    /\ LET r == enable_flight_mode_outcome(ret)
       IN  IF r.exc # "none"
           THEN Raise(r.exc)
           ELSE Return(r.value) /\ UNCHANGED ser
    /\ UNCHANGED <<inputs, bot, txbuf, rxbuf, sent, read_issued, clock, frame, locals>>

\* return __send_and_confirm_ubx_packet(serial_port, 0x06, 0x04, FF 87 00 00)
RebootCall ==
    /\ pc = "reboot_my_gps"
    /\ req' = cfg_rst_request
    /\ Call("send_assemble", "reboot_return")
    /\ UNCHANGED <<inputs, bot, port, clock, frame, ack_ok, dyn_model, packet, sum1, sum2>>

RebootReturn ==
    /\ pc = "reboot_return"
    /\ Return(ret)
    /\ UNCHANGED <<inputs, bot, port, clock, frame, locals>>

(***************************************************************************)
(* query_dynamic_model                                                     *)
(* The function never reads the clock, so its reads leave `now` alone.     *)
(***************************************************************************)
\* msg = B5 62 06 24 00 00 + ubx_checksum(06 24 00 00); serial_port.write(msg)
QueryWrite ==
    /\ pc = "query_dynamic_model"
    /\ txbuf' = txbuf \o <<181, 98, 6, 36, 0, 0>> \o ubx_checksum(<<6, 36, 0, 0>>)
    /\ pc' = "q_sync1"
    /\ UNCHANGED <<inputs, bot, stack, ret, exc, exit_code, ser, rxbuf, sent, read_issued,
                   clock, frame, locals>>

\* a variant that gives up: a read that times out empty ends the wait
QuerySync_GivesUp(here, byte, found) ==
    /\ pc = here
    /\ \E r \in ReadOutcomes(1) :
          /\ rxbuf' = r.rest
          /\ IF r.bytes = <<>>
             THEN Return("None")
             ELSE /\ pc' = IF r.bytes = <<byte>> THEN found ELSE "q_sync1"
                  /\ UNCHANGED <<stack, ret, exc, exit_code>>
    /\ read_issued' = TRUE
    /\ UNCHANGED <<inputs, bot, ser, txbuf, sent, clock, frame, locals>>

\* if serial_port.read(1) == b'\xB5' (here) / b'\x62' (after the first)
QuerySync(here, byte, found) ==
    /\ pc = here
    /\ \E r \in ReadOutcomes(1) :
          /\ rxbuf' = r.rest
          /\ pc' = IF r.bytes = <<byte>> THEN found ELSE "q_sync1"
    /\ read_issued' = TRUE
    /\ UNCHANGED <<inputs, bot, stack, ret, exc, exit_code, ser, txbuf, sent,
                   clock, frame, locals>>

QuerySync1 == QuerySync("q_sync1", 181, "q_sync2")
QuerySync2 == QuerySync("q_sync2", 98, "q_header")

\* header = serial_port.read(2)
QueryHeader ==
    /\ pc = "q_header"
    /\ \E r \in ReadOutcomes(2) :
          /\ rxbuf' = r.rest
          /\ header' = r.bytes
    /\ pc' = "q_length"
    /\ UNCHANGED <<inputs, bot, stack, ret, exc, exit_code, ser, txbuf, sent, read_issued,
                   clock, length, payload, frames, locals>>

\* length = struct.unpack('<H', serial_port.read(2))[0]
QueryLength ==
    /\ pc = "q_length"
    /\ \E r \in ReadOutcomes(2) :
          /\ rxbuf' = r.rest
          /\ LET u == unpack_H(r.bytes)
             IN  IF u.exc # "none"
                 THEN Raise(u.exc) /\ UNCHANGED length
                 ELSE /\ length' = u.value
                      /\ pc' = "q_payload"
                      /\ UNCHANGED <<stack, ret, exc, exit_code, ser>>
    /\ UNCHANGED <<inputs, bot, txbuf, sent, read_issued, clock, header, payload,
                   frames, locals>>

\* payload = serial_port.read(length)
QueryPayload ==
    /\ pc = "q_payload"
    /\ \E r \in ReadOutcomes(length) :
          /\ rxbuf' = r.rest
          /\ payload' = r.bytes
    /\ pc' = "q_cksum"
    /\ UNCHANGED <<inputs, bot, stack, ret, exc, exit_code, ser, txbuf, sent, read_issued,
                   clock, header, length, frames, locals>>

\* serial_port.read(2)  # checksum
QueryChecksum ==
    /\ pc = "q_cksum"
    /\ \E r \in ReadOutcomes(2) : rxbuf' = r.rest
    /\ pc' = "q_classify"
    /\ frames' = Append(frames, [header |-> header, length |-> length, payload |-> payload])
    /\ UNCHANGED <<inputs, bot, stack, ret, exc, exit_code, ser, txbuf, sent, read_issued,
                   clock, header, length, payload, locals>>

\* if header == b'\x06\x24' and length >= 2: dyn_model = payload[2]; return
\* payload[2] is the third byte: IndexError when the payload has fewer.
query_classify(hdr, len, pl) ==
    IF hdr = <<6, 36>> /\ len >= 2
    THEN IF Len(pl) < 3
         THEN [exc |-> "IndexError", return |-> FALSE, value |-> -1]
         ELSE [exc |-> "none", return |-> TRUE, value |-> pl[3]]
    ELSE [exc |-> "none", return |-> FALSE, value |-> -1]

QueryClassify ==
    /\ pc = "q_classify"
    /\ LET c == query_classify(header, length, payload)
       IN  IF c.exc # "none"
           THEN Raise(c.exc) /\ UNCHANGED dyn_model
           ELSE IF c.return
                THEN /\ dyn_model' = c.value
                     /\ Return("model")
                     /\ UNCHANGED ser
                ELSE /\ pc' = "q_sync1"
                     /\ UNCHANGED <<stack, ret, exc, exit_code, ser, dyn_model>>
    /\ UNCHANGED <<inputs, bot, txbuf, rxbuf, sent, read_issued, clock, frame,
                   req, ack_ok, packet, sum1, sum2>>

(***************************************************************************)
(* main                                                                    *)
(***************************************************************************)
\* with serial.Serial(args.port, args.baud, timeout=1) as ser:
\* opening may raise serial.SerialException, which the except clause turns
\* into sys.exit(1)
MainOpen ==
    /\ pc = "main_open"
    /\ IF open_ok
       THEN /\ ser' = "open"
            /\ pc' = "main_reset_test"
            /\ UNCHANGED <<exc, exit_code>>
       ELSE /\ exc' = "SerialException"
            /\ exit_code' = 1
            /\ pc' = "exited"
            /\ UNCHANGED ser
    /\ UNCHANGED <<inputs, bot, stack, ret, txbuf, rxbuf, sent, read_issued, clock, frame, locals>>

\* if args.reset_gps: reboot_my_gps(ser)
MainResetTest ==
    /\ pc = "main_reset_test"
    /\ IF args.reset_gps
       THEN Call("reboot_my_gps", "main_after_reboot")
       ELSE pc' = "main_get_test" /\ UNCHANGED <<stack, ret, exc, exit_code>>
    /\ UNCHANGED <<inputs, bot, port, clock, frame, locals>>

\* a slip: the return after the reset is missing
MainAfterReboot_FallsThrough ==
    /\ pc = "main_after_reboot"
    /\ pc' = "main_get_test"
    /\ UNCHANGED <<inputs, bot, stack, ret, exc, exit_code, port, clock, frame, locals>>

\* print("Cold reset sent..."); return -- leaving the with-block closes the
\* port, and the process ends with exit code 0
MainAfterReboot ==
    /\ pc = "main_after_reboot"
    /\ pc' = "done"
    /\ ser' = "closed"
    /\ exit_code' = 0
    /\ UNCHANGED <<inputs, bot, stack, ret, exc, txbuf, rxbuf, sent, read_issued,
                   clock, frame, locals>>

\* if args.get_model: model = query_dynamic_model(ser)
MainGetTest ==
    /\ pc = "main_get_test"
    /\ IF args.get_model
       THEN Call("query_dynamic_model", "main_after_query")
       ELSE pc' = "main_set_test" /\ UNCHANGED <<stack, ret, exc, exit_code>>
    /\ UNCHANGED <<inputs, bot, port, clock, frame, locals>>

\* print(f"Current Dynamic Model: ...")
MainAfterQuery ==
    /\ pc = "main_after_query"
    /\ pc' = "main_set_test"
    /\ UNCHANGED <<inputs, bot, stack, ret, exc, exit_code, port, clock, frame, locals>>

\* if args.set_model is not None: the parser defines --set-flight-mode
\* (args.set_flight_mode) and no set_model, so reading args.set_model raises
\* AttributeError whatever the flags are; the body of the if never runs.
MainSetTest ==
    /\ pc = "main_set_test"
    /\ Raise("AttributeError")
    /\ UNCHANGED <<inputs, bot, txbuf, rxbuf, sent, read_issued, clock, frame, locals>>

(***************************************************************************)
(* The specification.                                                      *)
(***************************************************************************)
(***************************************************************************)
(* bot.py: the main loop, and onReceive running on the library's receive   *)
(* thread.                                                                 *)
(***************************************************************************)
\* altitudes the GPS log lines can carry: alt=(?P<alt>-?\d+)
Altitudes == {-101, 0, 900, 1001, 1200, 5100}

\* what parse_recent_gps_from_journalctl returns: None, or the dictionary
GpsReadings == {PyNone} \cup {gps_data(a) : a \in Altitudes}

\* the keys of that dictionary
gps_data_keys == {"lat", "lon", "alt", "sats", "timestamp"}

\* a slip: the burst is announced without setting the flag
altitude_step_FlagNotSet(alt, m, b) ==
    LET m1 == IF alt > 1000 /\ m < alt THEN alt ELSE m
        lifted == alt > 1000 /\ alt < 1360
        level  == \E base \in {5000, 10000, 15000, 20000, 25000, 30000} :
                      alt > base /\ alt < base + 360
        fell   == alt < m1 - 100 /\ ~b
    IN  [max_alt |-> m1,
         burst   |-> b,
         msg     |-> IF fell THEN "burst"
                     ELSE IF level THEN "altitude"
                     ELSE IF lifted THEN "liftoff"
                     ELSE "None"]

\* lines 153-164: the new max_alt, the new burst flag and the message chosen
\* (a later assignment to msg replaces an earlier one)
altitude_step(alt, m, b) ==
    LET m1 == IF alt > 1000 /\ m < alt THEN alt ELSE m
        lifted == alt > 1000 /\ alt < 1360
        level  == \E base \in {5000, 10000, 15000, 20000, 25000, 30000} :
                      alt > base /\ alt < base + 360
        fell   == alt < m1 - 100 /\ ~b
    IN  [max_alt |-> m1,
         burst   |-> b \/ fell,
         msg     |-> IF fell THEN "burst"
                     ELSE IF level THEN "altitude"
                     ELSE IF lifted THEN "liftoff"
                     ELSE "None"]

\* iteration += 1; ...; pos = parse_recent_gps_from_journalctl()
LoopGetPos ==
    /\ op = "bot"
    /\ loop_pc = "get_pos"
    /\ iteration < MaxIterations
    /\ iteration' = iteration + 1
    /\ pos' \in GpsReadings
    /\ loop_pc' = "branch"
    /\ UNCHANGED <<inputs, ctrl, port, clock, frame, locals,
                   max_alt, burst, msg, burst_msgs, cb_pc, packets, replies>>

\* if pos: ... if msg: sendText(msg, '^all')
\* else: if iteration % 30 == 0: sendText(hello, '^all')
LoopBranch ==
    /\ op = "bot"
    /\ loop_pc = "branch"
    /\ IF pos # PyNone
       THEN LET r == altitude_step(pos.alt, max_alt, burst)
            IN  /\ max_alt' = r.max_alt
                /\ burst' = r.burst
                /\ msg' = r.msg
                /\ burst_msgs' = IF r.msg = "burst" THEN burst_msgs + 1 ELSE burst_msgs
       ELSE /\ msg' = IF iteration % 30 = 0 THEN "hello" ELSE "None"
            /\ UNCHANGED <<max_alt, burst, burst_msgs>>
    /\ loop_pc' = "downlink"
    /\ UNCHANGED <<inputs, ctrl, port, clock, frame, locals,
                   iteration, pos, cb_pc, packets, replies>>

\* the downlink sendText on channel 1, then time.sleep(60)
LoopDownlink ==
    /\ op = "bot"
    /\ loop_pc = "downlink"
    /\ loop_pc' = "get_pos"
    /\ UNCHANGED <<inputs, ctrl, port, clock, frame, locals,
                   iteration, max_alt, burst, pos, msg, burst_msgs, cb_pc, packets, replies>>

\* the library calls onReceive with a TEXT_MESSAGE_APP packet addressed to
\* my_node_user_id; lines 86-100 build the start of the reply
CbDeliver ==
    /\ op = "bot"
    /\ cb_pc = "idle"
    /\ packets < MaxMessages
    /\ packets' = packets + 1
    /\ cb_pc' = "pos_is_not_None"
    /\ UNCHANGED <<inputs, ctrl, port, clock, frame, locals,
                   iteration, max_alt, burst, pos, msg, burst_msgs, loop_pc, replies>>

\* line 101, left operand: `pos is not None` reads the global pos; a name
\* not yet assigned raises NameError, which line 123 catches: no reply
CbPosIsNotNone ==
    /\ op = "bot"
    /\ cb_pc = "pos_is_not_None"
    /\ cb_pc' = IF pos = Unbound THEN "idle"
                ELSE IF pos = PyNone THEN "sendText"
                ELSE "issubset"
    /\ UNCHANGED <<inputs, ctrl, port, clock, frame, locals,
                   iteration, max_alt, burst, pos, msg, burst_msgs, loop_pc, packets, replies>>

\* line 101, right operand: {'latitude','longitude','altitude'}.issubset(pos)
\* reads pos again; None here raises TypeError, caught at line 123: no
\* reply.  The dictionary has none of the three keys, so the test is false
\* and the reply says there is no lock.
CbIssubset ==
    /\ op = "bot"
    /\ cb_pc = "issubset"
    /\ cb_pc' = IF pos = PyNone THEN "idle"
                ELSE IF {"latitude", "longitude", "altitude"} \subseteq gps_data_keys
                     THEN "local_position"
                     ELSE "sendText"
    /\ UNCHANGED <<inputs, ctrl, port, clock, frame, locals,
                   iteration, max_alt, burst, pos, msg, burst_msgs, loop_pc, packets, replies>>

\* interface.sendText(msg, packet['from'])
CbSendText ==
    /\ op = "bot"
    /\ cb_pc = "sendText"
    /\ replies' = replies + 1
    /\ cb_pc' = "idle"
    /\ UNCHANGED <<inputs, ctrl, port, clock, frame, locals,
                   iteration, max_alt, burst, pos, msg, burst_msgs, loop_pc, packets>>

Next ==
    \/ DeviceSend
    \/ SerialFails
    \/ ChecksumUnbounded
    \/ ChecksumMasked
    \/ Assemble
    \/ SendAssemble
    \/ SendWrite
    \/ SendReturn
    \/ ReadAckStart
    \/ ReadAckLoop
    \/ ReadAckSync1
    \/ ReadAckSync2
    \/ ReadAckHeader
    \/ ReadAckLength
    \/ ReadAckPayload
    \/ ReadAckChecksum
    \/ ReadAckClassify
    \/ EnableFlightModeCall
    \/ EnableFlightModeReturn
    \/ RebootCall
    \/ RebootReturn
    \/ QueryWrite
    \/ QuerySync1
    \/ QuerySync2
    \/ QueryHeader
    \/ QueryLength
    \/ QueryPayload
    \/ QueryChecksum
    \/ QueryClassify
    \/ MainOpen
    \/ MainResetTest
    \/ MainAfterReboot
    \/ MainGetTest
    \/ MainAfterQuery
    \/ MainSetTest

Spec == Init /\ [][Next]_vars

(***************************************************************************)
(* The bounded wait against a device that may send for ever.  The clock    *)
(* counts whole seconds and a read that finds its bytes waiting may take   *)
(* under a second, so time passing is a fairness condition: of infinitely  *)
(* many reads, infinitely many move the clock (SF on Tick).  The reader    *)
(* itself keeps running (WF on its steps).                                 *)
(***************************************************************************)
InitLive ==
    /\ Init
    /\ op = "send_and_confirm"

ReaderStep ==
    \/ SendAssemble
    \/ SendWrite
    \/ SendReturn
    \/ ReadAckStart
    \/ ReadAckLoop
    \/ ReadAckSync1
    \/ ReadAckSync2
    \/ ReadAckHeader
    \/ ReadAckLength
    \/ ReadAckPayload
    \/ ReadAckChecksum
    \/ ReadAckClassify

NextLive ==
    \/ ReaderStep
    \/ DeviceStreams

Tick == ReaderStep /\ now' > now

(***************************************************************************)
(* bot.py on its own: the main loop interleaved with the callback.         *)
(***************************************************************************)
InitBot ==
    /\ InitCommon
    /\ op = "bot"
    /\ args = NoArgs /\ open_ok = TRUE
    /\ data = <<>> /\ req = NoRequest
    /\ ser = "unopened" /\ pc = "bot"

NextBot ==
    \/ LoopGetPos
    \/ LoopBranch
    \/ LoopDownlink
    \/ CbDeliver
    \/ CbPosIsNotNone
    \/ CbIssubset
    \/ CbSendText

SpecBot == InitBot /\ [][NextBot]_vars

SpecLive ==
    /\ InitLive
    /\ [][NextLive]_vars
    /\ WF_vars(ReaderStep)
    /\ SF_vars(Tick)

(***************************************************************************)
(* The receive-side steps applied to a whole byte string: sync, 2 header   *)
(* bytes, LE16 length, that many payload bytes, 2 checksum bytes.          *)
(***************************************************************************)
decode_frame(bytes) ==
    LET hdr == SubSeq(bytes, 3, Min(4, Len(bytes)))
        u   == unpack_H(SubSeq(bytes, 5, Min(6, Len(bytes))))
        pl  == SubSeq(bytes, 7, Min(6 + u.value, Len(bytes)))
        ck  == SubSeq(bytes, 7 + u.value, Min(8 + u.value, Len(bytes)))
    IN  [sync    |-> Take(bytes, 1) = <<181>> /\ SubSeq(bytes, 2, Min(2, Len(bytes))) = <<98>>,
         exc     |-> u.exc,
         header  |-> hdr,
         length  |-> u.value,
         payload |-> pl,
         cksum   |-> ck,
         rest    |-> Drop(bytes, 8 + u.value)]

(***************************************************************************)
(* Claims.                                                                 *)
(***************************************************************************)
\* the operations that send req and wait in read_ack
AckOps == {"send_and_confirm", "enable_flight_mode", "reboot_my_gps", "main"}

\* indices of the parsed frames that are an ACK or a NAK naming (c, i)
Matching(fs, c, i) ==
    {k \in 1..Len(fs) : /\ fs[k].header \in {<<5, 1>>, <<5, 0>>}
                        /\ Take(fs[k].payload, 2) = <<c, i>>}

\* what the first matching frame decides
FirstDecision(fs, c, i) ==
    LET M == Matching(fs, c, i)
    IN  IF M = {} THEN "None"
        ELSE LET k == CHOOSE k \in M : \A j \in M : k <= j
             IN  IF fs[k].header = <<5, 1>> THEN "True" ELSE "False"

\* read_ack has ended: it returned to __send_and_confirm_ubx_packet, or an
\* exception left it
ReadAckReturned == pc = "send_return"
ReadAckRaised ==
    /\ exc = "struct.error"
    /\ \/ op \in {"send_and_confirm", "enable_flight_mode", "reboot_my_gps"}
       \/ op = "main" /\ args.reset_gps

\* C1: for every incoming byte stream the bounded ACK wait ends by returning
\* what the first frame read with an ACK/NAK header naming the request
\* decides: True for an ACK, False for a NAK, None when no such frame is read.
C1_AckWaitDecidedByFirstMatch ==
    /\ ReadAckReturned => ret = FirstDecision(frames, req.class_id, req.message_id)
    /\ ~ReadAckRaised

\* C2: enable_flight_mode reports three distinguishable outcomes: an ACK is
\* reported as success (True), and a timeout (None) is not reported as a
\* failure the way a NAK is.
C2_ThreeOutcomesReported ==
    (op = "enable_flight_mode" /\ pc \in Terminal /\ ack_ok # "unset") =>
        /\ ack_ok = "True" => (exc = "none" /\ ret = "True")
        /\ ack_ok = "None" => exc = "none"

\* the frame the spec's end-to-end scenario gives for set_dynamic_model(6)
C3_SpecFrame ==
    LET body == <<6, 36, 36, 0>> \o <<1, 0, 6, 2>> \o Zeros(32)
    IN  <<181, 98>> \o body \o ubx_checksum(body)

\* the frame of the source: mask FF FF, model 06, fix mode 03, then the
\* tuning fields 00 00 00 00 10 27 00 00 05 00 FA 00 FA 00 64 00 2C 01 and
\* 14 zero bytes, then the checksum 16 DC
C3_SourceFrame ==
    <<181, 98, 6, 36, 36, 0>> \o <<255, 255, 6, 3>>
        \o <<0, 0, 0, 0, 16, 39, 0, 0, 5, 0, 250, 0, 250, 0, 100, 0, 44, 1>>
        \o Zeros(14) \o <<22, 220>>

\* C3 (as claimed): setting the dynamic model to 6 writes exactly the frame
\* B5 62 06 24 24 00, mask 01 00, model 06, fix mode 02, 32 zero bytes,
\* checksum.
C3_WritesSpecFrame ==
    (op = "enable_flight_mode" /\ txbuf # <<>>) => txbuf = C3_SpecFrame

\* C3 (amended): enable_flight_mode writes exactly one frame, B5 62 06 24 24 00
\* followed by the 36-byte payload of the source (mask FF FF, model 06, fix
\* mode 03, non-zero tuning fields) and the checksum over class, id, length
\* and payload; nothing is written before the frame is assembled and nothing
\* else afterwards (a write that fails with a serial error writes nothing).
C3_WritesSourceFrame ==
    op = "enable_flight_mode" =>
        /\ txbuf \in {<<>>, C3_SourceFrame}
        /\ (pc \notin {"enable_flight_mode", "send_assemble", "send_write"}
               /\ ~(exc = "SerialException" /\ txbuf = <<>>))
              => txbuf = C3_SourceFrame
        /\ C3_SourceFrame[43] = ubx_checksum(SubSeq(C3_SourceFrame, 3, 42))[1]
        /\ C3_SourceFrame[44] = ubx_checksum(SubSeq(C3_SourceFrame, 3, 42))[2]

C3_Witness ==
    op = "enable_flight_mode" /\ pc = "done" /\ ack_ok = "True" /\ txbuf # <<>>

\* the device's items that are complete frames and do not answer the poll
NotPollReply == FrameItems \ {"nav5_len3", "nav5_len2"}

\* the first poll reply (header 06 24, length >= 2) among the sent items,
\* when everything before it is a complete frame of another kind; 0 if none
FirstPollReply ==
    LET R == {k \in 1..Len(sent) : /\ sent[k] \in {"nav5_len3", "nav5_len2"}
                                   /\ \A j \in 1..(k - 1) : sent[j] \in NotPollReply}
    IN  IF R = {} THEN 0 ELSE CHOOSE k \in R : TRUE

\* C4: when the first frame with header (06,24) and length >= 2 has payload p,
\* query_dynamic_model ends by returning p[2], for every such length
\* including 2, frames before it being skipped (the port itself not failing).
C4_PollReturnsModelByte ==
    (op = "query_dynamic_model" /\ pc \in Terminal /\ FirstPollReply # 0
        /\ exc # "SerialException") =>
        LET p == decode_frame(Items[sent[FirstPollReply]]).payload
        IN  pc = "done" /\ Len(p) >= 3 /\ dyn_model = p[3]

\* the ACK item that answers req
ExpectedAck ==
    IF req.message_id = 36 THEN "ack_nav5" ELSE "ack_rst"

\* complete frames that do not match req: other classes, and ACK/NAK frames
\* naming another request
NonMatching ==
    IF req.message_id = 36
    THEN FrameItems \ {"ack_nav5", "nak_nav5"}
    ELSE FrameItems \ {"ack_rst", "nak_rst"}

\* the request is one the device's ACK/NAK items can name
KnownRequest ==
    op \in AckOps /\ req.class_id = 6 /\ req.message_id \in {4, 36}

\* so far the device has sent only complete frames that do not match req
OnlyNoise ==
    KnownRequest /\ \A k \in 1..Len(sent) : sent[k] \in NonMatching

\* the device has sent non-matching complete frames and then the expected ACK
NoiseThenAck ==
    /\ KnownRequest
    /\ Len(sent) >= 1
    /\ sent[Len(sent)] = ExpectedAck
    /\ \A k \in 1..(Len(sent) - 1) : sent[k] \in NonMatching

\* C5: complete non-matching frames are discarded without aborting the wait
\* or deciding it (while only such frames have arrived the wait raises
\* nothing and returns nothing but None), and when the expected ACK follows
\* them the wait, once it has returned, has returned True.
C5_NoiseThenAckSucceeds ==
    /\ OnlyNoise =>
          /\ ~ReadAckRaised
          /\ ReadAckReturned => ret = "None"
          /\ ack_ok \in {"unset", "None"}
    /\ NoiseThenAck =>
          /\ ~ReadAckRaised
          /\ ReadAckReturned => ret = "True"
          /\ ack_ok \in {"unset", "True"}

C5_Witness ==
    /\ NoiseThenAck /\ Len(sent) = MaxItems /\ Len(frames) = MaxItems
    /\ sent[1] \in {"nak_rst", "nak_nav5"}
    /\ ReadAckReturned /\ ret = "True"

\* C6: read_ack returns None only when at least `timeout` seconds have passed
\* since it started.
C6_UnknownOnlyAtDeadline ==
    (ReadAckReturned /\ ret = "None") => now - start_time >= timeout

\* nothing ever arrived and the wait ended exactly at the deadline
C6_Witness ==
    ReadAckReturned /\ ret = "None" /\ sent = <<>> /\ now - start_time = timeout

\* C7: the two checksum functions give the same pair for every byte string.
C7_ChecksumsAgree ==
    (op = "checksum" /\ pc = "done") => sum1 = sum2

\* a byte string whose unbounded sums exceed 8 bits
C7_Witness ==
    /\ op = "checksum" /\ pc = "done"
    /\ Len(data) = MaxDataLen
    /\ UnboundedLoop(data, 1, Len(data), <<0, 0>>)[1] > 255
    /\ sum1 = sum2

\* C8: for a payload of at most 65535 bytes the assembled frame is B5 62,
\* class, id, LE16 length, payload, two trailing bytes; the receive-side steps
\* recover class, id, length and payload, the length field equals the payload
\* length, and the trailing bytes are the checksum over class, id, length and
\* payload.
C8_AssembleRoundTrip ==
    (op = "ubx_assemble_packet" /\ pc \in Terminal /\ Len(req.payload) <= 65535) =>
        LET f == packet.value
            d == decode_frame(f)
            n == Len(req.payload)
        IN  /\ pc = "done"
            /\ Len(f) = n + 8
            /\ d.sync /\ d.exc = "none"
            /\ d.header = <<req.class_id, req.message_id>>
            /\ d.length = n
            /\ d.payload = req.payload
            /\ d.rest = <<>>
            /\ d.cksum = ubx_checksum(SubSeq(f, 3, n + 6))

\* the longest payload, and one whose length needs the high byte alone
C8_Witness ==
    /\ op = "ubx_assemble_packet" /\ pc = "done"
    /\ Len(req.payload) = 65535
    /\ decode_frame(packet.value).length = 65535

\* C9: a send whose payload is longer than 65535 bytes fails before any I/O:
\* nothing is written, no read is issued, and the call ends in an error.
C9_OversizeFailsBeforeIO ==
    (op = "send_and_confirm" /\ Len(req.payload) > 65535) =>
        /\ txbuf = <<>>
        /\ ~read_issued
        /\ pc \in {"send_assemble", "raised"}
        /\ pc = "raised" => exc = "OverflowError"

C9_Witness ==
    op = "send_and_confirm" /\ Len(req.payload) > 65535 /\ pc = "raised"

\* the CFG-RST frame: B5 62 06 04 04 00 FF 87 00 00 94 F5
C10_RstFrame == <<181, 98, 6, 4, 4, 0, 255, 135, 0, 0, 148, 245>>

\* C10: in a CLI run with the reset flag and the query and/or set flag, the
\* only frame ever written is the CFG-RST frame.
C10_ResetWritesOnlyRst ==
    (op = "main" /\ args.reset_gps /\ (args.get_model \/ args.set_flight_mode)) =>
        /\ txbuf \in {<<>>, C10_RstFrame}
        /\ (pc \in Terminal /\ open_ok /\ ~(exc = "SerialException" /\ txbuf = <<>>))
              => txbuf = C10_RstFrame

C10_Witness ==
    /\ op = "main" /\ args.reset_gps /\ args.get_model /\ args.set_flight_mode
    /\ pc = "done" /\ exit_code = 0 /\ txbuf = C10_RstFrame

\* C11: once main has opened the port, the port is closed on every path by
\* which the run ends: the return after a reset, a serial error, and any
\* other exception raised while an operation runs.
C11_PortClosedOnEveryExit ==
    op = "main" =>
        /\ (pc \in Terminal /\ open_ok) => ser = "closed"
        /\ ser = "open" => pc \notin Terminal
        /\ ~open_ok => ser = "unopened"

\* an exception other than a serial error ended the run after the port was
\* opened and used
C11_Witness ==
    /\ op = "main" /\ pc = "raised" /\ exc \in {"struct.error", "IndexError"}
    /\ txbuf # <<>> /\ ser = "closed"

\* the operations the flags ask for have run to their end
RequestedOperationsCompleted ==
    IF args.reset_gps
    THEN ack_ok # "unset"
    ELSE args.get_model => dyn_model # -1

\* C12: the CLI process exits with code 0 whenever the requested operations
\* complete without a serial error, and with code 1 when opening or using
\* the serial connection fails.
C12_ExitCodes ==
    (op = "main" /\ pc \in Terminal) =>
        /\ exc = "SerialException" => exit_code = 1
        /\ (exc # "SerialException" /\ RequestedOperationsCompleted) => exit_code = 0

\* stray bytes and complete non-matching frames, then the expected ACK
StrayThenAck ==
    /\ KnownRequest
    /\ Len(sent) >= 1
    /\ sent[Len(sent)] = ExpectedAck
    /\ \A k \in 1..(Len(sent) - 1) : sent[k] \in NonMatching \cup {"stray_b5", "stray_00"}

\* C13: the scanner recognises a frame at every occurrence of B5 62 outside
\* an already-parsed frame, whatever noise bytes precede it: the expected ACK
\* is detected also when a stray byte (B5 included) comes right before it,
\* once the reader has consumed every byte that arrived.
C13_SyncFoundAfterAnyNoise ==
    (StrayThenAck /\ ReadAckReturned /\ rxbuf = <<>>) => ret = "True"

\* the device's items that stop after the sync bytes, inside a frame
CutItems == {"cut_sync", "cut_header", "cut_length", "cut_payload", "cut_cksum"}

\* C14: a read that returns fewer bytes than requested in the middle of a
\* frame does not interrupt the wait with an error: the exchange still ends
\* Acked, Naked or TimedOut, and TimedOut unless a matching frame was read.
C14_ShortReadsDoNotInterrupt ==
    (op \in AckOps /\ \E k \in 1..Len(sent) : sent[k] \in CutItems) =>
        /\ ~ReadAckRaised
        /\ ReadAckReturned => ret \in {"True", "False", "None"}
        /\ (ReadAckReturned /\ Matching(frames, req.class_id, req.message_id) = {})
              => ret = "None"

\* C15: against a device that is silent or sends without end (stray bytes,
\* non-matching frames, anything), and with every read returning within its
\* per-read timeout, the bounded ACK/NAK wait ends: read_ack returns or
\* raises, and the exchange that called it reaches a terminal state.
C15_AckWaitTerminates ==
    (pc = "ra_start") ~> (pc \in Terminal)

\* the wait ended at its deadline with unread bytes of the stream still
\* waiting
C15_Witness ==
    /\ op = "send_and_confirm"
    /\ pc = "send_return" /\ ret = "None"
    /\ rxbuf # <<>>
    /\ now - start_time >= timeout

\* the device's frames with wrong checksum bytes, and the frame each one is
\* but for those two bytes
BadChecksum ==
    [ ack_nav5_badck  |-> "ack_nav5",
      nak_nav5_badck  |-> "nak_nav5",
      nav5_len3_badck |-> "nav5_len3" ]

Canon(item) == IF item \in DOMAIN BadChecksum THEN BadChecksum[item] ELSE item

\* the stream sent so far, up to the values of checksum bytes: complete
\* frames that do not decide (set N), and then at the end the frame `last`
CanonStream(N, last) ==
    /\ Len(sent) >= 1
    /\ Canon(sent[Len(sent)]) = last
    /\ \A k \in 1..(Len(sent) - 1) : Canon(sent[k]) \in N

ExpectedNak ==
    IF req.message_id = 36 THEN "nak_nav5" ELSE "nak_rst"

\* C16: the outcome depends on the stream only up to the values of its
\* checksum bytes.  Streams that are, up to those bytes, non-matching frames
\* followed by the expected ACK (NAK) make read_ack return True (False), and
\* the wait does not end before that frame; streams that are, up to those
\* bytes, other frames followed by the 3-byte poll reply make
\* query_dynamic_model return its third payload byte, 6.  A frame with wrong
\* checksum bytes is accepted like the right one.
C16_ChecksumBytesIgnored ==
    /\ (KnownRequest /\ ReadAckReturned /\ CanonStream(NonMatching, ExpectedAck))
          => ret = "True"
    /\ (KnownRequest /\ ReadAckReturned /\ CanonStream(NonMatching, ExpectedNak))
          => ret = "False"
    /\ (KnownRequest /\ ReadAckReturned
            /\ \A k \in 1..Len(sent) : Canon(sent[k]) \in NonMatching)
          => ret = "None"
    /\ (op = "query_dynamic_model" /\ pc \in Terminal /\ exc # "SerialException"
            /\ CanonStream(NotPollReply, "nav5_len3"))
          => (pc = "done" /\ dyn_model = 6)

\* an ACK with wrong checksum bytes was taken as the answer
C16_Witness ==
    /\ KnownRequest /\ ReadAckReturned
    /\ Len(sent) = 2 /\ sent[1] \in NonMatching /\ sent[2] = "ack_nav5_badck"
    /\ ExpectedAck = "ack_nav5"
    /\ ret = "True"

\* the poll: CFG-NAV5 with an empty payload
C17_PollFrame == <<181, 98, 6, 36, 0, 0, 42, 132>>

\* C17: query_dynamic_model writes one zero-length CFG-NAV5 poll frame and
\* waits with no deadline: while the device has sent nothing the operation
\* is in no terminal state and has no value, whatever the clock says, and a
\* value it returns is the third payload byte of a frame with header 06 24
\* that it read.
C17_PollWaitsWithoutDeadline ==
    op = "query_dynamic_model" =>
        /\ (pc # "query_dynamic_model" /\ exc # "SerialException") => txbuf = C17_PollFrame
        /\ (sent = <<>> /\ exc # "SerialException") => (pc \notin Terminal /\ dyn_model = -1)
        /\ (pc = "done" \/ dyn_model # -1) =>
              /\ pc = "done" /\ ret = "model"
              /\ frames # <<>>
              /\ frames[Len(frames)].header = <<6, 36>>
              /\ Len(frames[Len(frames)].payload) >= 3
              /\ dyn_model = frames[Len(frames)].payload[3]

\* a read has timed out empty on a silent device and the wait goes on
C17_Witness ==
    /\ op = "query_dynamic_model"
    /\ sent = <<>> /\ rxbuf = <<>>
    /\ read_issued
    /\ pc = "q_sync1"
    /\ txbuf = C17_PollFrame

\* C18: over any sequence of altitude readings the 'balloon has burst'
\* broadcast is sent at most once; once it has been sent the burst flag is
\* true in every later state, and a pass that starts with the flag set does
\* not choose that broadcast.
C18_BurstBroadcastAtMostOnce ==
    op = "bot" =>
        /\ burst_msgs <= 1
        /\ burst_msgs >= 1 => burst
        /\ burst = (burst_msgs = 1)

\* after the broadcast, a later reading far below max_alt passed without a
\* second one
C18_Witness ==
    /\ op = "bot"
    /\ burst_msgs = 1
    /\ loop_pc = "downlink"
    /\ pos.kind = "dict" /\ pos.alt < max_alt - 100
    /\ msg # "burst"

\* C19: the 'balloon has burst' broadcast is sent only after a flight
\* altitude was recorded: in every state where it is the broadcast of the
\* pass, max_alt is above 1000, for every reading the log parser can
\* produce, negative ones included.
C19_BurstOnlyAfterFlight ==
    (op = "bot" /\ (msg = "burst" \/ burst_msgs > 0)) => max_alt > 1000

\* C20: every direct message delivered to onReceive gets exactly one reply,
\* whatever the main loop does in between, a delivery before the first
\* assignment of pos included: when the callback is idle there are as many
\* replies as delivered messages, and never more.
C20_EveryMessageAnswered ==
    op = "bot" =>
        /\ replies <= packets
        /\ cb_pc = "idle" => replies = packets
====
